---- MODULE Spec2Model ----
(***************************************************************************)
(* ichat_to_eml: the "rtfd" attachment container decoder (rtfd_decode.py)  *)
(* and the two archive adapters that normalise an iChat log into one       *)
(* conversation dictionary (bplist_decode.bplist_to_conv and               *)
(* ichat_to_eml.parse_typedstream_chat).                                   *)
(*                                                                         *)
(* Bytes objects are sequences of integers 0..255.  Python str values that *)
(* the code inspects character by character (identifiers, protocol names,  *)
(* file names) are sequences of code points; dictionary keys, class names  *)
(* and MIME types, which the code only compares for equality, are strings. *)
(* A Python dict is a function whose DOMAIN is its key set.                *)
(***************************************************************************)
EXTENDS Integers, Sequences, FiniteSets, TLC

VARIABLES
    \* decode_rtfd, run on its own
    data,        \* the input buffer
    src,         \* how the input buffer was built (ghost, never read by the decoder)
    rpc,         \* position of decode_rtfd
    numberparts, \* header field
    offset,      \* read cursor
    parts,       \* list of part dicts
    outdict,     \* the record under construction / returned
    consumed,    \* number of leading bytes of data read so far (ghost)
    \* the adapters
    adapter,     \* "A" (bplist_to_conv), "B" (parse_typedstream_chat), "none"
    archive,     \* the deserialised input object graph
    pc,          \* position of the adapter
    k,           \* number of root_obj[2] / elements[2] entries already visited
    conversation,\* the conversation dict
    message,     \* Adapter B's per-message accumulator
    origin       \* ghost: for each output message, the index of its source object

rvars == <<data, src, rpc, numberparts, offset, parts, outdict, consumed>>
avars == <<adapter, archive, pc, k, conversation, message, origin>>
vars == <<data, src, rpc, numberparts, offset, parts, outdict, consumed,
          adapter, archive, pc, k, conversation, message, origin>>

----------------------------------------------------------------------------
(* Bounds of the model *)

\* most parts in a generated container
MaxParts == 3
\* longest payload in the layout family of containers
MaxPayloadLen == 1
\* largest padding length of a generated extended-layout part
MaxPad == 1
\* most objects in root_obj[2] (Adapter A) / tschat.elements[2] (Adapter B)
MaxObjects == 2

----------------------------------------------------------------------------
(* Python primitives *)

Min(a, b) == IF a < b THEN a ELSE b
Max(a, b) == IF a > b THEN a ELSE b

\* largest value of a 32-bit signed field
INT_MAX == 2147483646 + 1
\* struct's smallest '<l' value, the extended-layout sentinel
INT_MIN == (-2147483646) - 2

\* a + b for a >= 0; Python integers are unbounded, every buffer here is far
\* shorter than INT_MAX, so an index at or above INT_MAX slices like a + b
SatAdd(a, b) == IF b > INT_MAX - a THEN INT_MAX ELSE a + b

\* s[a:b] of a Python sequence (0-based, negative indices count from the end)
PySlice(s, a, b) ==
    LET n == Len(s)
        norm(x) == IF x < 0 THEN Max(n + x, 0) ELSE Min(x, n)
        lo == norm(a)
        hi == norm(b)
    IN IF hi <= lo THEN <<>> ELSE SubSeq(s, lo + 1, hi)

\* s[a:]
PySliceFrom(s, a) == PySlice(s, a, Len(s))

\* d with key key set to v (d[key] = v)
Put(d, key, v) == (key :> v) @@ d

\* the empty dict {}
EmptyDict == <<>>

\* F(e) with e evaluated once: x = e followed by the statements F uses x in
Bind(e, F(_)) == CHOOSE r \in {F(x) : x \in {e}} : TRUE

\* struct.unpack('<i', b)[0] / struct.unpack('<l', b)[0]: struct.error unless
\* b holds exactly 4 bytes; little-endian two's complement
unpack_i32(b) ==
    IF Len(b) # 4 THEN [ok |-> FALSE]
    ELSE [ok |-> TRUE,
          v  |-> b[1] + 256 * b[2] + 65536 * b[3]
                 + 16777216 * (IF b[4] >= 128 THEN b[4] - 256 ELSE b[4])]

\* b''.join(struct.unpack(str(n) + 'c', b)): struct.error when n is negative
\* (bad format) or b does not hold exactly n bytes
unpack_chars(n, b) ==
    IF n < 0 \/ Len(b) # n THEN [ok |-> FALSE] ELSE [ok |-> TRUE, v |-> b]

\* bytes.decode('ascii'): UnicodeDecodeError on a byte above 127
decode_ascii(b) ==
    IF \E i \in 1..Len(b) : b[i] > 127 THEN [ok |-> FALSE]
    ELSE [ok |-> TRUE, v |-> b]

IsCont(c) == c >= 128 /\ c <= 191

\* bytes.decode('utf-8'): strict UTF-8 to code points
RECURSIVE decode_utf8(_)
decode_utf8(b) ==
    IF b = <<>> THEN [ok |-> TRUE, v |-> <<>>]
    ELSE
      LET c == b[1]
          n == Len(b)
          one == c < 128
          two == c >= 194 /\ c <= 223 /\ n >= 2 /\ IsCont(b[2])
          three == /\ c >= 224 /\ c <= 239 /\ n >= 3
                   /\ IsCont(b[2]) /\ IsCont(b[3])
                   /\ (c = 224 => b[2] >= 160)
                   /\ (c = 237 => b[2] <= 159)
          four == /\ c >= 240 /\ c <= 244 /\ n >= 4
                  /\ IsCont(b[2]) /\ IsCont(b[3]) /\ IsCont(b[4])
                  /\ (c = 240 => b[2] >= 144)
                  /\ (c = 244 => b[2] <= 143)
          used == IF one THEN 1 ELSE IF two THEN 2 ELSE IF three THEN 3 ELSE 4
          cp == IF one THEN c
                ELSE IF two THEN (c - 192) * 64 + (b[2] - 128)
                ELSE IF three THEN (c - 224) * 4096 + (b[2] - 128) * 64 + (b[3] - 128)
                ELSE (c - 240) * 262144 + (b[2] - 128) * 4096
                     + (b[3] - 128) * 64 + (b[4] - 128)
      IN IF ~(one \/ two \/ three \/ four) THEN [ok |-> FALSE]
         ELSE Bind(decode_utf8(SubSeq(b, used + 1, n)), LAMBDA rest :
                IF rest.ok THEN [ok |-> TRUE, v |-> <<cp>> \o rest.v]
                ELSE [ok |-> FALSE])

----------------------------------------------------------------------------
(* rtfd_decode.py *)

RtfdMagic == <<114, 116, 102, 100>>                       \* b'rtfd'
UTF8PreferredName == <<95, 95, 64, 85, 84, 70, 56, 80, 114, 101, 102, 101, 114,
                       114, 101, 100, 78, 97, 109, 101, 64, 95, 95>>
PreferredName == <<95, 95, 64, 80, 114, 101, 102, 101, 114, 114, 101, 100, 78,
                   97, 109, 101, 64, 95, 95>>
DotDot == <<46, 46>>                                      \* b'..'
Dot == <<46>>                                             \* b'.'

\* the high-water mark of bytes read, after reading d[lo:hi]
Touch(d, c, lo, hi) ==
    IF lo >= Len(d) \/ hi <= lo THEN c ELSE Max(c, Min(hi, Len(d)))

\* mutant of has_rtfd_magic: compares three bytes only
has_rtfd_magic_prefix3(d) == PySlice(d, 0, 3) = SubSeq(RtfdMagic, 1, 3)

\* has_rtfd_magic(data); every buffer of the model is a bytes object
has_rtfd_magic(d) == PySlice(d, 0, 4) = RtfdMagic

\* lines 41-43: the three header fields after the magic
read_header(d, c) ==
    LET padding == unpack_i32(PySlice(d, 4, 8))
        version == unpack_i32(PySlice(d, 8, 12))
        n       == unpack_i32(PySlice(d, 12, 16))
    IN IF ~padding.ok THEN [ok |-> FALSE, consumed |-> Touch(d, c, 4, 8)]
       ELSE IF ~version.ok THEN [ok |-> FALSE, consumed |-> Touch(d, c, 4, 12)]
       ELSE IF ~n.ok THEN [ok |-> FALSE, consumed |-> Touch(d, c, 4, 16)]
       ELSE [ok |-> TRUE, consumed |-> Touch(d, c, 4, 16), numberparts |-> n.v]

\* lines 47-59: the name table; range(numberparts) is empty for numberparts <= 0
RECURSIVE read_names(_, _, _, _, _, _)
read_names(d, n, i, off, ps, c) ==
    IF i >= n THEN [ok |-> TRUE, offset |-> off, parts |-> ps, consumed |-> c]
    ELSE
      LET partnamelen == unpack_i32(PySlice(d, off, off + 4))
          c1 == Touch(d, c, off, off + 4)
      IN IF ~partnamelen.ok THEN [ok |-> FALSE, consumed |-> c1]
         ELSE
           LET off1 == off + 4
               end  == SatAdd(off1, partnamelen.v)
               name == unpack_chars(partnamelen.v, PySlice(d, off1, end))
               c2   == Touch(d, c1, off1, end)
           IN IF ~name.ok THEN [ok |-> FALSE, consumed |-> c2]
              ELSE Bind([offset |-> off1 + partnamelen.v,
                         parts |-> Append(ps, [index |-> i, name |-> name.v]),
                         consumed |-> c2],
                        LAMBDA x : read_names(d, n, i + 1, x.offset, x.parts, x.consumed))

\* lines 63-66: the size table
RECURSIVE read_sizes(_, _, _, _, _)
read_sizes(d, i, off, ps, c) ==
    IF i > Len(ps) THEN [ok |-> TRUE, offset |-> off, parts |-> ps, consumed |-> c]
    ELSE
      LET size == unpack_i32(PySlice(d, off, off + 4))
          c1 == Touch(d, c, off, off + 4)
      IN IF ~size.ok THEN [ok |-> FALSE, consumed |-> c1]
         ELSE Bind([parts |-> [ps EXCEPT ![i] = Put(ps[i], "size", size.v)],
                    consumed |-> c1],
                   LAMBDA x : read_sizes(d, i + 1, off + 4, x.parts, x.consumed))

\* lines 69-73: the content blocks
RECURSIVE read_content(_, _, _, _, _)
read_content(d, i, off, ps, c) ==
    IF i > Len(ps) THEN [ok |-> TRUE, offset |-> off, parts |-> ps, consumed |-> c]
    ELSE
      LET size == ps[i].size
          end  == IF size < 0 THEN off + size ELSE SatAdd(off, size)
          content == unpack_chars(size, PySlice(d, off, end))
          c1 == Touch(d, c, off, end)
      IN IF ~content.ok THEN [ok |-> FALSE, consumed |-> c1]
         ELSE Bind([parts |-> [ps EXCEPT ![i] = Put(ps[i], "contentbytes", content.v)],
                    consumed |-> c1],
                   LAMBDA x : read_content(d, i + 1, off + size, x.parts, x.consumed))

\* mutant of content_start_of: the padding length is not added
content_start_no_padding(declared, padding) == IF declared = INT_MIN THEN 16 ELSE 8

\* lines 80-87: where the payload starts inside a content block
content_start_of(declared, padding) ==
    IF declared = INT_MIN THEN SatAdd(16, padding) ELSE 8

\* lines 88-90: struct.unpack(str(content_size)+'c', contentbytes[content_start:])
take_filebytes(contentbytes, content_start, content_size) ==
    unpack_chars(content_size, PySliceFrom(contentbytes, content_start))

\* lines 77-90 for one part
parse_inner(contentbytes) ==
    LET content_header == unpack_i32(PySlice(contentbytes, 0, 4))
        declared == unpack_i32(PySlice(contentbytes, 4, 8))
    IN IF ~content_header.ok \/ ~declared.ok THEN [ok |-> FALSE]
       ELSE IF declared.v = INT_MIN
       THEN LET size2 == unpack_i32(PySlice(contentbytes, 8, 12))
                pad   == unpack_i32(PySlice(contentbytes, 12, 16))
            IN IF ~size2.ok \/ ~pad.ok THEN [ok |-> FALSE]
               ELSE Bind(content_start_of(declared.v, pad.v), LAMBDA start :
                    Bind(take_filebytes(contentbytes, start, size2.v), LAMBDA fb :
                      IF ~fb.ok THEN [ok |-> FALSE]
                      ELSE [ok |-> TRUE, filebytes |-> fb.v,
                            content_start |-> start, content_size |-> size2.v]))
       ELSE Bind(content_start_of(declared.v, 0), LAMBDA start :
            Bind(take_filebytes(contentbytes, start, declared.v), LAMBDA fb :
              IF ~fb.ok THEN [ok |-> FALSE]
              ELSE [ok |-> TRUE, filebytes |-> fb.v,
                    content_start |-> start, content_size |-> declared.v]))

\* lines 76-90: the inner header of every part
RECURSIVE parse_parts(_, _)
parse_parts(i, ps) ==
    IF i > Len(ps) THEN [ok |-> TRUE, parts |-> ps]
    ELSE Bind(parse_inner(ps[i].contentbytes), LAMBDA r :
           IF ~r.ok THEN [ok |-> FALSE]
           ELSE Bind([ps EXCEPT ![i] = Put(Put(Put(ps[i], "filebytes", r.filebytes),
                                               "content_start", r.content_start),
                                           "content_size", r.content_size)],
                     LAMBDA x : parse_parts(i + 1, x)))

\* the first index i >= from with ps[i].name in names, 0 if none
\* (for p in parts: if ...: break / elif ...: break)
RECURSIVE first_named(_, _, _)
first_named(ps, from, names) ==
    IF from > Len(ps) THEN 0
    ELSE IF ps[from].name \in names THEN from
    ELSE first_named(ps, from + 1, names)

\* mutant of filename_part: a fixed preference for the UTF-8 name
filename_part_utf8_first(ps) ==
    IF first_named(ps, 1, {UTF8PreferredName}) # 0
    THEN first_named(ps, 1, {UTF8PreferredName})
    ELSE first_named(ps, 1, {PreferredName})

\* lines 96-102: the part that supplies the file name
filename_part(ps) == first_named(ps, 1, {UTF8PreferredName, PreferredName})

\* lines 106-112: the part that supplies the data
data_part(ps) == first_named(ps, 1, {DotDot, Dot})

\* lines 93-102
resolve_filename(ps, out) ==
    Bind(filename_part(ps), LAMBDA i :
        IF i = 0 THEN [ok |-> TRUE, outdict |-> out]
        ELSE Bind(IF ps[i].name = UTF8PreferredName
                  THEN decode_utf8(ps[i].filebytes)
                  ELSE decode_ascii(ps[i].filebytes),
                  LAMBDA s : IF ~s.ok THEN [ok |-> FALSE]
                             ELSE [ok |-> TRUE, outdict |-> Put(out, "filename", s.v)]))

\* lines 106-112
resolve_data(ps, out) ==
    Bind(data_part(ps), LAMBDA i :
        IF i = 0 THEN out ELSE Put(out, "data", ps[i].filebytes))

\* decode_rtfd(data) as one call: [ok |-> FALSE] when it raises, else the outdict
decode_rtfd(d) ==
    IF ~has_rtfd_magic(d) THEN [ok |-> FALSE]
    ELSE Bind(read_header(d, 4), LAMBDA h :
    IF ~h.ok THEN [ok |-> FALSE]
    ELSE Bind(read_names(d, h.numberparts, 0, 16, <<>>, 16), LAMBDA nm :
    IF ~nm.ok THEN [ok |-> FALSE]
    ELSE Bind(read_sizes(d, 1, nm.offset, nm.parts, 16), LAMBDA sz :
    IF ~sz.ok THEN [ok |-> FALSE]
    ELSE Bind(read_content(d, 1, sz.offset, sz.parts, 16), LAMBDA ct :
    IF ~ct.ok THEN [ok |-> FALSE]
    ELSE Bind(parse_parts(1, ct.parts), LAMBDA pp :
    IF ~pp.ok THEN [ok |-> FALSE]
    ELSE Bind(resolve_filename(pp.parts, EmptyDict), LAMBDA fn :
    IF ~fn.ok THEN [ok |-> FALSE]
    ELSE [ok |-> TRUE, outdict |-> resolve_data(pp.parts, fn.outdict)]))))))

----------------------------------------------------------------------------
(* Helpers shared by the two adapters *)

S_UNKNOWN == <<85, 78, 75, 78, 79, 87, 78>>               \* 'UNKNOWN'
S_AIM == <<65, 73, 77>>                                   \* 'AIM'
S_AOL == <<65, 79, 76, 32, 73, 110, 115, 116, 97, 110, 116, 32,
           77, 101, 115, 115, 101, 110, 103, 101, 114>>   \* 'AOL Instant Messenger'
S_Jabber == <<74, 97, 98, 98, 101, 114>>                  \* 'Jabber'
UnnamedAttachment == <<85, 110, 110, 97, 109, 101, 100, 32, 65, 116, 116, 97,
                       99, 104, 109, 101, 110, 116>>      \* 'Unnamed Attachment'
EmptyAttachment == <<69, 109, 112, 116, 121, 32, 65, 116, 116, 97, 99, 104,
                     109, 101, 110, 116>>                 \* 'Empty Attachment'
NSFileWrapperType == "application/x-nsfilewrapper-serialized"

\* Python None, and the test "x is None", for values that are None or a dict
None == [none |-> TRUE]
IsNone(x) == DOMAIN x = {"none"}

\* truth value of a value that is None or a dict
Truthy(x) == ~IsNone(x) /\ DOMAIN x # {}

\* x in lst, for a list
InList(x, lst) == \E n \in 1..Len(lst) : lst[n] = x

\* s.split(':')[-1]: what follows the last colon, all of s without one
RECURSIVE LastSegment(_)
LastSegment(s) ==
    IF \A n \in 1..Len(s) : s[n] # 58 THEN s
    ELSE LastSegment(Tail(s))

\* str.isspace() for the code points below 256
IsSpace(c) == c \in {9, 10, 11, 12, 13, 28, 29, 30, 31, 32, 133, 160}

\* s.strip()
RECURSIVE Strip(_)
Strip(s) ==
    IF s = <<>> THEN s
    ELSE IF IsSpace(s[1]) THEN Strip(Tail(s))
    ELSE IF IsSpace(s[Len(s)]) THEN Strip(SubSeq(s, 1, Len(s) - 1))
    ELSE s

\* x in s, for two str values: x occurs in s as a substring
IsSubstring(x, s) ==
    \E n \in 0..(Len(s) - Len(x)) : SubSeq(s, n + 1, n + Len(x)) = x

\* hashlib.md5(d).hexdigest(): a digest that identifies the bytes it was taken of
md5_hexdigest(d) == [md5 |-> d]

\* pytz.UTC.localize(t): the naive datetime t made timezone-aware
localize(t) == [naive |-> t, tzinfo |-> "UTC"]

\* magic.from_buffer(data, mime=True), the libmagic collaborator
sniff_mime(d) ==
    IF d = <<>> THEN "application/x-empty"
    ELSE IF \A n \in 1..Len(d) : (d[n] >= 32 /\ d[n] <= 126) \/ d[n] \in {9, 10, 13}
    THEN "text/plain"
    ELSE "application/octet-stream"

\* attachment_type.determine_attachment_type(data)
determine_attachment_type(d) ==
    IF has_rtfd_magic(d) THEN NSFileWrapperType ELSE sniff_mime(d)

\* lst with x appended unless it is in lst already
AppendNew(lst, x) == IF InList(x, lst) THEN lst ELSE Append(lst, x)

----------------------------------------------------------------------------
(* bplist_decode.py: Adapter A *)

\* lines 69-73: the display names
a_names(meta) ==
    IF meta.Participants.kind = "str" THEN <<Strip(meta.Participants.v)>>
    ELSE [n \in 1..Len(meta.Participants.v) |-> Strip(meta.Participants.v[n])]

\* lines 76-79: the account names of the PresentityIDs
RECURSIVE a_userids(_, _)
a_userids(ids, acc) ==
    IF ids = <<>> THEN acc
    ELSE Bind(AppendNew(acc, LastSegment(Head(ids))), LAMBDA x : a_userids(Tail(ids), x))

\* lines 57-82; [ok |-> FALSE] when a metadata key is missing (KeyError)
a_metadata(meta, conv) ==
    IF ~({"StartTime", "EndTime", "Service", "Participants"} \subseteq DOMAIN meta)
    THEN [ok |-> FALSE]
    ELSE
      LET c1 == Put(Put(Put(conv, "startobj", localize(meta.StartTime)),
                        "endobj", localize(meta.EndTime)),
                    "dateobj", localize(meta.EndTime))
          c2 == Put(c1, "protocol", IF meta.Service = S_AOL THEN S_AIM ELSE meta.Service)
          c3 == [c2 EXCEPT !.names = conv.names \o a_names(meta)]
          c4 == IF "PresentityIDs" \in DOMAIN meta
                THEN [c3 EXCEPT !.userids = a_userids(meta.PresentityIDs, conv.userids)]
                ELSE c3
          c5 == IF "LastMessageID" \in DOMAIN meta
                THEN Put(c4, "totalmessages", meta.LastMessageID)
                ELSE c4
      IN [ok |-> TRUE, conversation |-> c5]

\* mutant of a_sender: the sender is put into the message and not into
\* the participants
a_sender_unregistered(msg_obj, st) ==
    IF "Sender" \notin DOMAIN msg_obj THEN st
    ELSE LET sender == msg_obj.Sender
         IN IF IsNone(sender) THEN [st EXCEPT !.message = Put(st.message, "from", <<>>)]
            ELSE IF "ID" \in DOMAIN sender
            THEN [st EXCEPT !.message = Put(st.message, "from", LastSegment(sender.ID))]
            ELSE IF "AccountID" \in DOMAIN sender
            THEN [st EXCEPT !.message = Put(st.message, "fromguid", sender.AccountID)]
            ELSE st

\* lines 95-103: the sender; st is [ok, message, participants, hasattachments]
a_sender(msg_obj, st) ==
    IF "Sender" \notin DOMAIN msg_obj THEN st
    ELSE LET sender == msg_obj.Sender
         IN IF IsNone(sender) THEN [st EXCEPT !.message = Put(st.message, "from", <<>>)]
            ELSE IF "ID" \in DOMAIN sender
            THEN Bind(LastSegment(sender.ID), LAMBDA from :
                   [st EXCEPT !.message = Put(st.message, "from", from),
                              !.participants = AppendNew(st.participants, from)])
            ELSE IF "AccountID" \in DOMAIN sender
            THEN [st EXCEPT !.message = Put(st.message, "fromguid", sender.AccountID)]
            ELSE st

\* lines 111-117: font name and size, from the attributes or from the first
\* element of a list of attributes
a_font(attrs, st) ==
    IF attrs.kind = "dict"
    THEN IF "NSFont" \in DOMAIN attrs.v
         THEN [st EXCEPT !.message = Put(Put(st.message, "textfont", attrs.v.NSFont.NSName),
                                         "textsize", attrs.v.NSFont.NSSize)]
         ELSE st
    ELSE IF Len(attrs.v) = 0 THEN [st EXCEPT !.ok = FALSE]          \* IndexError
    ELSE IF "NSFont" \in DOMAIN attrs.v[1]
         THEN [st EXCEPT !.message = Put(Put(st.message, "textfont", attrs.v[1].NSFont.NSName),
                                         "textsize", attrs.v[1].NSFont.NSSize)]
         ELSE st

\* lines 120-134: the NSFileWrapper of an attachment marker
a_filewrapper(wrapper, st) ==
    IF Truthy(wrapper)
    THEN LET d == wrapper.NSFileWrapperData.NSdata
         IN IF has_rtfd_magic(d)
            THEN Bind(decode_rtfd(d), LAMBDA r :
                   IF ~r.ok THEN [st EXCEPT !.ok = FALSE]           \* struct.error, ...
                   ELSE IF "filename" \notin DOMAIN r.outdict
                           \/ "data" \notin DOMAIN r.outdict
                   THEN [st EXCEPT !.ok = FALSE]                    \* KeyError
                   ELSE LET attachment ==
                               Put(Put(Put(r.outdict, "name", r.outdict.filename),
                                       "type", determine_attachment_type(r.outdict.data)),
                                   "Content-ID", md5_hexdigest(r.outdict.data))
                        IN [st EXCEPT !.message = Put(st.message, "attachment", attachment),
                                      !.hasattachments = TRUE])
            ELSE [st EXCEPT !.hasattachments = TRUE]
    ELSE [st EXCEPT !.hasattachments = TRUE]

\* lines 118-134
a_attachment(attrs, st) ==
    IF ~st.ok \/ attrs.kind # "dict" THEN st
    ELSE IF "NSAttachment" \notin DOMAIN attrs.v THEN st
    ELSE IF "NSFileWrapper" \notin DOMAIN attrs.v.NSAttachment THEN st
    ELSE a_filewrapper(attrs.v.NSAttachment.NSFileWrapper, st)

\* lines 108-134
a_text(msg_obj, st) ==
    IF "MessageText" \notin DOMAIN msg_obj THEN st
    ELSE LET mt == msg_obj.MessageText
         IN IF "NSString" \notin DOMAIN mt THEN [st EXCEPT !.ok = FALSE]   \* KeyError
            ELSE Bind([st EXCEPT !.message = Put(st.message, "text", mt.NSString)],
                      LAMBDA st1 :
                        IF "NSAttributes" \notin DOMAIN mt THEN st1
                        ELSE Bind(a_font(mt.NSAttributes, st1),
                                  LAMBDA st2 : a_attachment(mt.NSAttributes, st2)))

\* lines 90-135: one InstantMessage object
a_message(msg_obj, participants) ==
    Bind([ok |-> TRUE, message |-> EmptyDict, participants |-> participants,
          hasattachments |-> FALSE], LAMBDA st0 :
    Bind(IF "GUID" \in DOMAIN msg_obj
         THEN [st0 EXCEPT !.message = Put(st0.message, "guid", msg_obj.GUID)]
         ELSE st0, LAMBDA st1 :
    Bind(a_sender(msg_obj, st1), LAMBDA st2 :
    Bind(IF "Time" \in DOMAIN msg_obj
         THEN [st2 EXCEPT !.message = Put(st2.message, "dateobj", localize(msg_obj.Time))]
         ELSE st2, LAMBDA st3 :
    a_text(msg_obj, st3)))))

\* bplist_decode.py lines 140-141 and ichat_to_eml.py lines 222-223
pad_participants(participants) ==
    IF Len(participants) < 2 THEN Append(participants, S_UNKNOWN) ELSE participants

----------------------------------------------------------------------------
(* ichat_to_eml.py: Adapter B.                                              *)
(* An element i of msgobj.contents is one of                                *)
(*   [kind |-> "novalue"]           no i.value                             *)
(*   [kind |-> "date", t |-> n]     i.value.value is a datetime            *)
(*   [kind |-> "scalar", s |-> ..]  i.value.value is something else        *)
(*   [kind |-> "obj", clazz, contents]  i.value is an archived object      *)
(* and an item of an object's contents is [has |-> BOOLEAN, ...], has      *)
(* telling whether item.value.value exists.  A color channel is a float    *)
(* between 0 and 1 given in thousandths.                                    *)

\* str(n) for an int n >= 0
RECURSIVE IntStr(_)
IntStr(n) == IF n < 10 THEN <<48 + n>> ELSE IntStr(n \div 10) \o <<48 + (n % 10)>>

\* the decimals of a fraction given in thousandths, as repr() prints them
FracStr(f) ==
    IF f % 100 = 0 THEN <<48 + (f \div 100)>>
    ELSE IF f % 10 = 0 THEN <<48 + (f \div 100), 48 + ((f \div 10) % 10)>>
    ELSE <<48 + (f \div 100), 48 + ((f \div 10) % 10), 48 + (f % 10)>>

\* str(x) for a float x >= 0 given in thousandths
FloatStr(x) == IntStr(x \div 1000) \o <<46>> \o FracStr(x % 1000)

\* int(x * 255) for a float x >= 0 given in thousandths
Channel(x) == (x * 255) \div 1000

\* lines 161-165 (sep ', ') and lines 168-172 (sep ',')
rgba(c, sep) ==
    <<114, 103, 98, 97, 40>> \o IntStr(Channel(c.red)) \o sep
    \o IntStr(Channel(c.green)) \o sep \o IntStr(Channel(c.blue)) \o sep
    \o FloatStr(c.alpha) \o <<41>>

\* lines 136-142: a Presentity element; st is
\* [ok, message, participants, hasattachments]
b_presentity(i, st) ==
    IF i.kind # "obj" THEN st                                 \* AttributeError, passed
    ELSE IF i.clazz # "Presentity" THEN st
    ELSE IF Len(i.contents) < 2 THEN [st EXCEPT !.ok = FALSE] \* IndexError, not caught
    ELSE IF ~i.contents[2].has THEN st                        \* AttributeError, passed
    ELSE [st EXCEPT !.participants = AppendNew(st.participants, i.contents[2].v),
                    !.message = Put(st.message, "from", i.contents[2].v)]

\* lines 143-147: a date element
b_date(i, st) ==
    IF i.kind = "date" THEN [st EXCEPT !.message = Put(st.message, "dateobj", i.t)]
    ELSE st

\* lines 174-188: an NSAttachment attribute; stop tells that an
\* AttributeError or IndexError left the try block
b_attachment(val, st) ==
    IF val.path # "ok" THEN [st EXCEPT !.stop = TRUE]
    ELSE
      LET type == determine_attachment_type(val.data)
      IN IF type = NSFileWrapperType
         THEN Bind(decode_rtfd(val.data), LAMBDA r :
                IF ~r.ok THEN [st EXCEPT !.ok = FALSE]        \* struct.error, ...
                ELSE IF "filename" \notin DOMAIN r.outdict \/ "data" \notin DOMAIN r.outdict
                THEN [st EXCEPT !.ok = FALSE]                 \* KeyError
                ELSE LET attachment ==
                           Put(Put(Put(r.outdict, "name", r.outdict.filename),
                                   "type", determine_attachment_type(r.outdict.data)),
                               "Content-ID", md5_hexdigest(r.outdict.data))
                     IN [st EXCEPT !.message = Put(st.message, "attachment", attachment),
                                   !.hasattachments = TRUE])
         ELSE LET attachment ==
                    [data |-> val.data, type |-> type, name |-> UnnamedAttachment]
              IN [st EXCEPT !.message =
                               Put(st.message, "attachment",
                                   Put(attachment, "Content-ID", md5_hexdigest(val.data))),
                            !.hasattachments = TRUE]

\* lines 153-188: one (key, value) pair of the attribute dictionary
b_attribute(j, st) ==
    IF j.key = "NSFont"
    THEN IF ~j.hasname THEN [st EXCEPT !.stop = TRUE]
         ELSE IF ~j.hassize
         THEN [st EXCEPT !.message = Put(st.message, "textfont", j.name), !.stop = TRUE]
         ELSE [st EXCEPT !.message = Put(Put(st.message, "textfont", j.name),
                                         "textsize", j.size)]
    ELSE IF j.key = "NSColor"
    THEN IF ~j.has THEN [st EXCEPT !.stop = TRUE]
         ELSE [st EXCEPT !.message = Put(st.message, "textcolor", rgba(j.rgba, <<44, 32>>))]
    ELSE IF j.key = "NSBackgroundColor"
    THEN IF ~j.has THEN [st EXCEPT !.stop = TRUE]
         ELSE [st EXCEPT !.message = Put(st.message, "bgcolor", rgba(j.rgba, <<44>>))]
    ELSE IF j.key = "NSAttachment" THEN b_attachment(j.val, st)
    ELSE st

\* line 151: the loop over the attribute dictionary
RECURSIVE b_attributes(_, _, _)
b_attributes(items, n, st) ==
    IF n > Len(items) \/ st.stop \/ ~st.ok THEN st
    ELSE Bind(b_attribute(items[n], st), LAMBDA x : b_attributes(items, n + 1, x))

\* lines 148-194: an NSAttributedString element
b_text(i, st) ==
    IF i.kind # "obj" THEN st                                 \* AttributeError, passed
    ELSE IF i.clazz # "NSAttributedString" THEN st
    ELSE IF Len(i.contents) < 1 THEN st                       \* IndexError, passed
    ELSE IF ~i.contents[1].has THEN st                        \* AttributeError, passed
    ELSE Bind([ok |-> st.ok, message |-> Put(st.message, "text", i.contents[1].v),
               participants |-> st.participants, hasattachments |-> st.hasattachments],
              LAMBDA st1 :
         IF Len(i.contents) < 3 THEN st1                      \* IndexError, passed
         ELSE IF ~i.contents[3].has THEN st1                  \* AttributeError, passed
         ELSE Bind(b_attributes(i.contents[3].attrs, 1,
                                [ok |-> st1.ok, message |-> st1.message,
                                 participants |-> st1.participants,
                                 hasattachments |-> st1.hasattachments,
                                 stop |-> FALSE]),
                   LAMBDA r :
                     [ok |-> r.ok, message |-> r.message, participants |-> r.participants,
                      hasattachments |-> r.hasattachments]))

\* lines 135-194: the loop over msgobj.contents
RECURSIVE b_elements(_, _, _)
b_elements(contents, n, st) ==
    IF n > Len(contents) \/ ~st.ok THEN st
    ELSE Bind(b_presentity(contents[n], st), LAMBDA s1 :
         Bind(IF s1.ok THEN b_date(contents[n], s1) ELSE s1, LAMBDA s2 :
         Bind(IF s2.ok THEN b_text(contents[n], s2) ELSE s2, LAMBDA s3 :
         b_elements(contents, n + 1, s3))))

\* lines 207-210: the contents of a Presentity outside any message
RECURSIVE b_stray_items(_, _, _, _)
b_stray_items(items, n, participants, protocol) ==
    IF n > Len(items) THEN participants
    ELSE IF ~items[n].has THEN participants                   \* AttributeError, passed
    ELSE Bind(IF ~InList(items[n].v, participants) /\ ~IsSubstring(items[n].v, protocol)
              THEN Append(participants, items[n].v)
              ELSE participants,
              LAMBDA x : b_stray_items(items, n + 1, x, protocol))

\* lines 203-212: the objects of one root element
RECURSIVE b_stray_objects(_, _, _, _)
b_stray_objects(l2s, n, participants, protocol) ==
    IF n > Len(l2s) THEN participants
    ELSE Bind(IF l2s[n].kind = "obj" /\ l2s[n].clazz = "Presentity"
              THEN b_stray_items(l2s[n].contents, 1, participants, protocol)
              ELSE participants,
              LAMBDA x : b_stray_objects(l2s, n + 1, x, protocol))

\* lines 200-214: the scan of tschat.elements[2:]
RECURSIVE b_stray(_, _, _, _)
b_stray(l1s, n, participants, protocol) ==
    IF n > Len(l1s) THEN participants
    ELSE Bind(IF l1s[n].has_elements
              THEN b_stray_objects(l1s[n].elements, 1, participants, protocol)
              ELSE participants,                              \* AttributeError, passed
              LAMBDA x : b_stray(l1s, n + 1, x, protocol))

----------------------------------------------------------------------------
(* Construction of input buffers for decode_rtfd (the layout documented in  *)
(* rtfd_decode.py lines 10-14 and 45-87, written as an encoder)             *)

\* struct.pack('<i', v)
Le32(v) ==
    LET u  == IF v < 0 THEN (v + INT_MAX) + 1 ELSE v
        hi == (u \div 16777216) + (IF v < 0 THEN 128 ELSE 0)
    IN <<u % 256, (u \div 256) % 256, (u \div 65536) % 256, hi>>

RECURSIVE Flatten(_)
Flatten(ss) == IF ss = <<>> THEN <<>> ELSE Head(ss) \o Flatten(Tail(ss))

Zeros(n) == [i \in 1..n |-> 0]

Seqs(S, n) == UNION {[1..m -> S] : m \in 0..n}

\* a content block in the standard layout
StdBlock(declared, body) == Le32(1) \o Le32(declared) \o body

\* a content block in the extended layout
ExtBlock(size, padding, body) ==
    Le32(1) \o Le32(INT_MIN) \o Le32(size) \o Le32(padding) \o body

\* the content block of a described part: payload in the chosen layout,
\* followed by trail extra bytes
BlockOf(p) ==
    IF p.ext
    THEN ExtBlock(Len(p.payload), p.pad, Zeros(p.pad) \o p.payload \o Zeros(p.trail))
    ELSE StdBlock(Len(p.payload), p.payload \o Zeros(p.trail))

\* the fields of the container that holds the described parts
Raw(ds) ==
    [magic  |-> RtfdMagic,
     count  |-> Len(ds),
     names  |-> [i \in 1..Len(ds) |-> [len |-> Len(ds[i].name), bytes |-> ds[i].name]],
     sizes  |-> [i \in 1..Len(ds) |-> Len(BlockOf(ds[i]))],
     blocks |-> [i \in 1..Len(ds) |-> BlockOf(ds[i])]]

\* the bytes of a container with the given fields
Encode(raw) ==
    raw.magic \o Le32(0) \o Le32(3) \o Le32(raw.count)
    \o Flatten([i \in 1..Len(raw.names) |-> Le32(raw.names[i].len) \o raw.names[i].bytes])
    \o Flatten([i \in 1..Len(raw.sizes) |-> Le32(raw.sizes[i])])
    \o Flatten(raw.blocks)

Part(name, payload, ext, pad, trail) ==
    [name |-> name, payload |-> payload, ext |-> ext, pad |-> pad, trail |-> trail]

OtherName == <<120>>                                      \* b'x'
NameSet == {UTF8PreferredName, PreferredName, DotDot, Dot, OtherName}
PayloadBytes == {104, 233}
Payloads == Seqs(PayloadBytes, MaxPayloadLen)
Layouts == {[ext |-> FALSE, pad |-> 0]} \cup {[ext |-> TRUE, pad |-> p] : p \in 0..MaxPad}

Input(bytes, family, ds, malformed) ==
    [bytes |-> bytes, src |-> [family |-> family, parts |-> ds, malformed |-> malformed]]

\* well-formed containers, every arrangement of the part names; the payload
\* of part i is the single byte 96 + i
NamesFamily ==
    UNION { { Input(Encode(Raw(ds)), "names", ds, FALSE) :
                ds \in { [i \in 1..n |-> Part(f[i], <<96 + i>>, FALSE, 0, 0)] :
                           f \in [1..n -> NameSet] } } :
            n \in 0..MaxParts }

\* well-formed two-part containers, every payload in every layout
LayoutFamily ==
    { Input(Encode(Raw(ds)), "layout", ds, FALSE) :
        ds \in { <<Part(Dot, q[1], l[1].ext, l[1].pad, 0),
                   Part(OtherName, q[2], l[2].ext, l[2].pad, 0)>> :
                   q \in [1..2 -> Payloads], l \in [1..2 -> Layouts] } }

\* file names that need decoding: a two-byte UTF-8 sequence, a lone high byte
TextFamily ==
    { Input(Encode(Raw(ds)), "text", ds, FALSE) :
        ds \in { <<Part(nm, pl, FALSE, 0, 0), Part(Dot, <<104, 105>>, FALSE, 0, 0)>> :
                   nm \in {UTF8PreferredName, PreferredName},
                   pl \in {<<195, 169>>, <<233>>, <<110>>} } }

\* content blocks that hold bytes after the declared payload
TrailFamily ==
    { Input(Encode(Raw(ds)), "trail", ds, FALSE) :
        ds \in { <<Part(UTF8PreferredName, <<110>>, FALSE, 0, 0),
                   Part(Dot, <<104, 105>>, l.ext, l.pad, t)>> :
                   l \in Layouts, t \in 1..3 } }

BaseParts == <<Part(UTF8PreferredName, <<110>>, FALSE, 0, 0),
               Part(Dot, <<104, 105>>, FALSE, 0, 0)>>
BaseRaw == Raw(BaseParts)
BaseBytes == Encode(BaseRaw)

\* buffers that do not begin with b'rtfd'
NoMagicFamily ==
    { Input(b, "nomagic", <<>>, FALSE) :
        b \in { [BaseBytes EXCEPT ![i] = 120] : i \in 1..4 }
              \cup { PySlice(BaseBytes, 0, n) : n \in 0..3 }
              \cup { Le32(0) \o BaseBytes } }

\* a container cut short
TruncFamily ==
    { Input(PySlice(BaseBytes, 0, n), "trunc", <<>>, TRUE) : n \in 4..(Len(BaseBytes) - 1) }

\* one field of the container negative or larger than the bytes that follow
FieldFamily ==
    { Input(Encode(r), "field", <<>>, TRUE) :
        r \in { [BaseRaw EXCEPT !.count = c] : c \in {-1, 3} }
              \cup { [BaseRaw EXCEPT !.names[1].len = c] : c \in {-1, 1023} }
              \cup { [BaseRaw EXCEPT !.sizes[2] = c] : c \in {-1, 0, 11} }
              \cup { [BaseRaw EXCEPT !.blocks[2] = StdBlock(c, <<104, 105>>)] : c \in {-1, 3} } }
    \cup
    { Input(Encode([BaseRaw EXCEPT !.blocks[2] = ExtBlock(f.size, f.pad, f.body),
                                   !.sizes[2] = 16 + Len(f.body)]),
            "padding", <<>>, TRUE) :
        f \in { [size |-> 6, pad |-> -4, body |-> <<104, 105>>],
                [size |-> 1, pad |-> -17, body |-> <<104, 105>>],
                [size |-> 0, pad |-> 100, body |-> <<>>],
                [size |-> 2, pad |-> -1, body |-> <<104, 105>>],
                [size |-> 3, pad |-> 0, body |-> <<104, 105>>] } }

RtfdInputs ==
    NamesFamily \cup LayoutFamily \cup TextFamily \cup TrailFamily
    \cup NoMagicFamily \cup TruncFamily \cup FieldFamily

----------------------------------------------------------------------------
(* decode_rtfd as a process: one action per pass over the buffer *)

AdapterIdle ==
    /\ adapter = "none" /\ archive = <<>> /\ pc = "idle" /\ k = 0
    /\ conversation = <<>> /\ message = <<>> /\ origin = <<>>

InitRtfd ==
    /\ \E in \in RtfdInputs : data = in.bytes /\ src = in.src
    /\ rpc = "magic"
    /\ numberparts = 0
    /\ offset = 0
    /\ parts = <<>>
    /\ outdict = EmptyDict
    /\ consumed = 0
    /\ AdapterIdle

RtfdFail(c) ==
    /\ rpc' = "error"
    /\ consumed' = c
    /\ UNCHANGED <<data, src, numberparts, offset, parts, outdict>>

\* lines 39-40
CheckMagic ==
    /\ rpc = "magic"
    /\ IF has_rtfd_magic(data)
       THEN /\ rpc' = "header"
            /\ consumed' = Touch(data, consumed, 0, 4)
            /\ UNCHANGED <<data, src, numberparts, offset, parts, outdict>>
       ELSE RtfdFail(Touch(data, consumed, 0, 4))
    /\ UNCHANGED avars

\* lines 41-43
ReadHeader ==
    /\ rpc = "header"
    /\ LET h == read_header(data, consumed)
       IN IF h.ok
          THEN /\ rpc' = "names"
               /\ numberparts' = h.numberparts
               /\ offset' = 16
               /\ consumed' = h.consumed
               /\ UNCHANGED <<data, src, parts, outdict>>
          ELSE RtfdFail(h.consumed)
    /\ UNCHANGED avars

\* lines 47-59
ReadNames ==
    /\ rpc = "names"
    /\ LET r == read_names(data, numberparts, 0, offset, parts, consumed)
       IN IF r.ok
          THEN /\ rpc' = "sizes"
               /\ offset' = r.offset
               /\ parts' = r.parts
               /\ consumed' = r.consumed
               /\ UNCHANGED <<data, src, numberparts, outdict>>
          ELSE RtfdFail(r.consumed)
    /\ UNCHANGED avars

\* lines 63-66
ReadSizes ==
    /\ rpc = "sizes"
    /\ LET r == read_sizes(data, 1, offset, parts, consumed)
       IN IF r.ok
          THEN /\ rpc' = "content"
               /\ offset' = r.offset
               /\ parts' = r.parts
               /\ consumed' = r.consumed
               /\ UNCHANGED <<data, src, numberparts, outdict>>
          ELSE RtfdFail(r.consumed)
    /\ UNCHANGED avars

\* lines 69-73
ReadContent ==
    /\ rpc = "content"
    /\ LET r == read_content(data, 1, offset, parts, consumed)
       IN IF r.ok
          THEN /\ rpc' = "inner"
               /\ offset' = r.offset
               /\ parts' = r.parts
               /\ consumed' = r.consumed
               /\ UNCHANGED <<data, src, numberparts, outdict>>
          ELSE RtfdFail(r.consumed)
    /\ UNCHANGED avars

\* lines 76-90
ParseParts ==
    /\ rpc = "inner"
    /\ LET r == parse_parts(1, parts)
       IN IF r.ok
          THEN /\ rpc' = "filename"
               /\ parts' = r.parts
               /\ UNCHANGED <<data, src, numberparts, offset, outdict, consumed>>
          ELSE RtfdFail(consumed)
    /\ UNCHANGED avars

\* lines 93-102
ResolveFilename ==
    /\ rpc = "filename"
    /\ LET r == resolve_filename(parts, EmptyDict)
       IN IF r.ok
          THEN /\ rpc' = "data"
               /\ outdict' = r.outdict
               /\ UNCHANGED <<data, src, numberparts, offset, parts, consumed>>
          ELSE RtfdFail(consumed)
    /\ UNCHANGED avars

\* lines 106-112 and the return at line 130
ResolveData ==
    /\ rpc = "data"
    /\ rpc' = "done"
    /\ outdict' = resolve_data(parts, outdict)
    /\ UNCHANGED <<data, src, numberparts, offset, parts, consumed>>
    /\ UNCHANGED avars

NextRtfd ==
    \/ CheckMagic \/ ReadHeader \/ ReadNames \/ ReadSizes
    \/ ReadContent \/ ParseParts \/ ResolveFilename \/ ResolveData

SpecRtfd == InitRtfd /\ [][NextRtfd]_vars

\* the stepwise decoder and decode_rtfd as one call agree
StepsAgreeWithCall ==
    /\ rpc = "done" => decode_rtfd(data).ok /\ decode_rtfd(data).outdict = outdict
    /\ rpc = "error" => ~decode_rtfd(data).ok

----------------------------------------------------------------------------
(* Input archives of the adapters *)

Al == <<97, 108>>                                         \* 'al'
Bo == <<98, 111>>                                         \* 'bo'
Ca == <<99, 97>>                                          \* 'ca'
IdAl == <<101, 58, 97, 108>>                              \* 'e:al'
IdBo == <<101, 58, 120, 58, 98, 111>>                     \* 'e:x:bo'
Hi == <<104, 105>>                                        \* 'hi'

\* d without key
Without(d, key) == [x \in DOMAIN d \ {key} |-> d[x]]

\* attachment payloads: containers with and without a file name or data
\* part, with empty data, cut short, and bytes that are no container
ContainerOK == BaseBytes
ContainerNoName == Encode(Raw(<<Part(Dot, Hi, FALSE, 0, 0)>>))
ContainerNoData == Encode(Raw(<<Part(PreferredName, <<110>>, FALSE, 0, 0)>>))
ContainerEmptyData ==
    Encode(Raw(<<Part(PreferredName, <<110>>, FALSE, 0, 0), Part(DotDot, <<>>, TRUE, 1, 0)>>))
ContainerCut == PySlice(BaseBytes, 0, Len(BaseBytes) - 1)
PlainData == <<0, 255>>

Wrapper(d) == [NSFileWrapperData |-> [NSdata |-> d]]
FontA == [NSName |-> <<72>>, NSSize |-> 12]
AttrsDict(v) == [kind |-> "dict", v |-> v]
AttrsList(v) == [kind |-> "list", v |-> v]

BaseMsgA ==
    [class |-> "InstantMessage", GUID |-> "guid", Sender |-> [ID |-> IdAl],
     Time |-> 5, MessageText |-> [NSString |-> Hi]]

WithSender(x) == [BaseMsgA EXCEPT !.Sender = x]
WithAttrs(x) == [BaseMsgA EXCEPT !.MessageText = [NSString |-> Hi, NSAttributes |-> x]]
WithWrapper(x) == WithAttrs(AttrsDict([NSAttachment |-> [NSFileWrapper |-> x]]))

\* the objects root_obj[2] is built of
ShapesA ==
    << BaseMsgA,
       Without(BaseMsgA, "Sender"),
       WithSender(None),
       WithSender([ID |-> IdBo]),
       WithSender([ID |-> S_UNKNOWN]),
       WithSender([AccountID |-> "acct"]),
       WithSender([ID |-> Bo, AccountID |-> "acct"]),
       WithSender([Other |-> 0]),
       Without(Without(BaseMsgA, "Time"), "GUID"),
       Without(BaseMsgA, "MessageText"),
       [BaseMsgA EXCEPT !.MessageText = [NSAttributes |-> AttrsDict([NSFont |-> FontA])]],
       WithAttrs(AttrsDict([NSFont |-> FontA])),
       WithAttrs(AttrsList(<<[NSFont |-> FontA]>>)),
       WithAttrs(AttrsList(<<[NSOther |-> 0]>>)),
       WithAttrs(AttrsList(<<>>)),
       WithAttrs(AttrsDict([NSAttachment |-> [NSOther |-> 0]])),
       WithWrapper(None),
       WithWrapper(Wrapper(PlainData)),
       WithWrapper(Wrapper(ContainerOK)),
       WithWrapper(Wrapper(ContainerNoName)),
       WithWrapper(Wrapper(ContainerNoData)),
       WithWrapper(Wrapper(ContainerEmptyData)),
       WithWrapper(Wrapper(ContainerCut)),
       WithAttrs(AttrsDict([NSFont |-> FontA,
                            NSAttachment |-> [NSFileWrapper |-> Wrapper(ContainerOK)]])),
       [BaseMsgA EXCEPT !.class = "StatusMessage", !.Sender = [ID |-> Ca]] >>

BaseMetaA ==
    [StartTime |-> 1, EndTime |-> 9, Service |-> S_AOL,
     Participants |-> [kind |-> "list", v |-> <<<<32, 65, 108, 32>>, <<66, 111>>>>],
     PresentityIDs |-> <<IdAl, IdBo, Al>>, LastMessageID |-> 2]

\* the metadata records
MetasA ==
    << BaseMetaA,
       [StartTime |-> 1, EndTime |-> 9, Service |-> S_Jabber,
        Participants |-> [kind |-> "str", v |-> <<65, 108, 10>>]],
       [StartTime |-> 1, EndTime |-> 9, Service |-> S_Jabber,
        Participants |-> [kind |-> "list", v |-> <<>>]],
       [StartTime |-> 1, EndTime |-> 9, Service |-> S_Jabber] >>

\* elements and objects of a typedstream archive
Item(v) == [has |-> TRUE, v |-> v]
NoItem == [has |-> FALSE]
AttrItem(attrs) == [has |-> TRUE, attrs |-> attrs]
Obj(clazz, contents) == [kind |-> "obj", clazz |-> clazz, contents |-> contents]
Presentity(contents) == Obj("Presentity", contents)
DateElement(t) == [kind |-> "date", t |-> t]
AttributedString(contents) == Obj("NSAttributedString", contents)
InstantMessage(contents) == Obj("InstantMessage", contents)

FontB == [key |-> "NSFont", hasname |-> TRUE, name |-> <<72>>, hassize |-> TRUE, size |-> 12]
ColorB(key) ==
    [key |-> key, has |-> TRUE,
     rgba |-> [red |-> 1000, green |-> 500, blue |-> 0, alpha |-> 1000]]
AttachmentB(d) == [key |-> "NSAttachment", val |-> [path |-> "ok", data |-> d]]
BrokenAttachmentB(fault) == [key |-> "NSAttachment", val |-> [path |-> fault, data |-> <<>>]]

PresAl == Presentity(<<Item(S_AIM), Item(Al)>>)
TextB(attrs) == AttributedString(<<Item(Hi), NoItem, AttrItem(attrs)>>)
MsgB(pres, text) == InstantMessage(<<pres, DateElement(7), text>>)

\* the objects tschat.elements[2].elements is built of
ShapesB ==
    << MsgB(PresAl, TextB(<<>>)),
       MsgB(Presentity(<<Item(S_AIM), Item(Bo)>>), TextB(<<>>)),
       MsgB(Presentity(<<Item(S_AIM), Item(S_UNKNOWN)>>), TextB(<<>>)),
       MsgB(Presentity(<<Item(S_AIM), NoItem>>), TextB(<<>>)),
       MsgB(Presentity(<<Item(Al)>>), TextB(<<>>)),
       InstantMessage(<<DateElement(7), TextB(<<>>)>>),
       InstantMessage(<<PresAl, TextB(<<>>)>>),
       InstantMessage(<<PresAl, DateElement(7)>>),
       InstantMessage(<<>>),
       InstantMessage(<<PresAl, [kind |-> "novalue"], DateElement(7),
                        [kind |-> "scalar", s |-> Hi], Obj("NSOther", <<>>), TextB(<<>>)>>),
       MsgB(PresAl, AttributedString(<<>>)),
       MsgB(PresAl, AttributedString(<<NoItem, NoItem, AttrItem(<<FontB>>)>>)),
       MsgB(PresAl, AttributedString(<<Item(Hi)>>)),
       MsgB(PresAl, AttributedString(<<Item(Hi), NoItem, NoItem>>)),
       MsgB(PresAl, TextB(<<FontB>>)),
       MsgB(PresAl, TextB(<<[FontB EXCEPT !.hasname = FALSE]>>)),
       MsgB(PresAl, TextB(<<[FontB EXCEPT !.hassize = FALSE], ColorB("NSColor")>>)),
       MsgB(PresAl, TextB(<<ColorB("NSColor"), ColorB("NSBackgroundColor"),
                            [key |-> "NSOther"]>>)),
       MsgB(PresAl, TextB(<<[ColorB("NSColor") EXCEPT !.has = FALSE], FontB>>)),
       MsgB(PresAl, TextB(<<AttachmentB(PlainData)>>)),
       MsgB(PresAl, TextB(<<AttachmentB(<<>>)>>)),
       MsgB(PresAl, TextB(<<AttachmentB(ContainerOK)>>)),
       MsgB(PresAl, TextB(<<AttachmentB(ContainerNoName)>>)),
       MsgB(PresAl, TextB(<<AttachmentB(ContainerEmptyData)>>)),
       MsgB(PresAl, TextB(<<AttachmentB(ContainerCut)>>)),
       MsgB(PresAl, TextB(<<BrokenAttachmentB("attr")>>)),
       MsgB(PresAl, TextB(<<FontB, BrokenAttachmentB("index")>>)),
       Presentity(<<Item(S_AIM), Item(Ca)>>),
       Obj("NSOther", <<>>),
       [kind |-> "noclazz"] >>

Elements(l2s) == [has_elements |-> TRUE, elements |-> l2s]

\* what follows tschat.elements[2]
RestsB ==
    << <<>>,
       <<Elements(<<Presentity(<<Item(S_AIM), Item(Ca)>>)>>)>>,
       <<[has_elements |-> FALSE],
         Elements(<<Presentity(<<Item(<<65, 73>>), Item(<<>>), Item(Al), Item(Bo)>>),
                    [kind |-> "noclazz"],
                    Presentity(<<Item(Ca), NoItem, Item(Hi)>>),
                    Obj("NSOther", <<>>)>>)>> >>

----------------------------------------------------------------------------
(* The adapters as processes: one action per object of the message list.   *)
(* When an exception leaves the adapter, pc becomes "error" and k keeps     *)
(* the number of objects handled before the one that raised.               *)

RtfdIdle ==
    /\ data = <<>>
    /\ src = [family |-> "none", parts |-> <<>>, malformed |-> FALSE]
    /\ rpc = "idle" /\ numberparts = 0 /\ offset = 0 /\ parts = <<>>
    /\ outdict = EmptyDict /\ consumed = 0

\* bplist_decode.py lines 45-49
InitA ==
    /\ adapter = "A"
    /\ \E n \in 0..MaxObjects, m \in 1..Len(MetasA) :
         /\ (m = 1 \/ n <= 1)
         /\ \E f \in [1..n -> 1..Len(ShapesA)] :
              archive = [metadata |-> MetasA[m], root2 |-> [x \in 1..n |-> ShapesA[f[x]]]]
    /\ pc = "start"
    /\ k = 0
    /\ conversation = [participants |-> <<>>, userids |-> <<>>, names |-> <<>>,
                       messages |-> <<>>]
    /\ message = EmptyDict
    /\ origin = <<>>
    /\ RtfdIdle

\* ichat_to_eml.py lines 118-123
InitB ==
    /\ adapter = "B"
    /\ \E n \in 0..MaxObjects, r \in 1..Len(RestsB) :
         /\ (r = 1 \/ n <= 1)
         /\ \E f \in [1..n -> 1..Len(ShapesB)] :
              archive = [protocol |-> S_AIM, objs |-> [x \in 1..n |-> ShapesB[f[x]]],
                         rest |-> RestsB[r]]
    /\ pc = "start"
    /\ k = 0
    /\ conversation = [messages |-> <<>>, participants |-> <<>>, protocol |-> <<>>,
                       hasattachments |-> FALSE]
    /\ message = EmptyDict
    /\ origin = <<>>
    /\ RtfdIdle

Init == InitA \/ InitB

Raise ==
    /\ pc' = "error"
    /\ UNCHANGED <<adapter, archive, k, conversation, message, origin>>

\* bplist_decode.py lines 51-82
A_Metadata ==
    /\ adapter = "A" /\ pc = "start"
    /\ LET r == a_metadata(archive.metadata, conversation)
       IN IF r.ok
          THEN /\ pc' = "loop"
               /\ conversation' = r.conversation
               /\ UNCHANGED <<adapter, archive, k, message, origin>>
          ELSE Raise
    /\ UNCHANGED rvars

\* bplist_decode.py lines 86-136, an InstantMessage object
A_Message ==
    /\ adapter = "A" /\ pc = "loop" /\ k < Len(archive.root2)
    /\ archive.root2[k + 1].class = "InstantMessage"
    /\ LET r == a_message(archive.root2[k + 1], conversation.participants)
       IN IF r.ok
          THEN /\ conversation' =
                    LET c1 == [conversation EXCEPT
                                 !.participants = r.participants,
                                 !.messages = Append(conversation.messages, r.message)]
                    IN IF r.hasattachments THEN Put(c1, "hasattachments", TRUE) ELSE c1
               /\ origin' = Append(origin, k + 1)
               /\ k' = k + 1
               /\ UNCHANGED <<adapter, archive, pc, message>>
          ELSE Raise
    /\ UNCHANGED rvars

\* mutant of A_Skip: an object of another class yields a message too
A_Skip_as_message ==
    /\ adapter = "A" /\ pc = "loop" /\ k < Len(archive.root2)
    /\ archive.root2[k + 1].class # "InstantMessage"
    /\ k' = k + 1
    /\ conversation' = [conversation EXCEPT !.messages = Append(conversation.messages, EmptyDict)]
    /\ origin' = Append(origin, k + 1)
    /\ UNCHANGED <<adapter, archive, pc, message>>
    /\ UNCHANGED rvars

\* bplist_decode.py lines 86-87, an object of another class
A_Skip ==
    /\ adapter = "A" /\ pc = "loop" /\ k < Len(archive.root2)
    /\ archive.root2[k + 1].class # "InstantMessage"
    /\ k' = k + 1
    /\ UNCHANGED <<adapter, archive, pc, conversation, message, origin>>
    /\ UNCHANGED rvars

\* bplist_decode.py lines 138-143
A_Finish ==
    /\ adapter = "A" /\ pc = "loop" /\ k = Len(archive.root2)
    /\ pc' = "done"
    /\ conversation' = [conversation EXCEPT
                          !.participants = pad_participants(conversation.participants)]
    /\ UNCHANGED <<adapter, archive, k, message, origin>>
    /\ UNCHANGED rvars

\* ichat_to_eml.py line 126
B_Protocol ==
    /\ adapter = "B" /\ pc = "start"
    /\ pc' = "loop"
    /\ conversation' = [conversation EXCEPT !.protocol = archive.protocol]
    /\ UNCHANGED <<adapter, archive, k, message, origin>>
    /\ UNCHANGED rvars

\* mutant of B_Message: the accumulator is not cleared after the append
B_Message_no_reset ==
    /\ adapter = "B" /\ pc = "loop" /\ k < Len(archive.objs)
    /\ archive.objs[k + 1].kind = "obj"
    /\ archive.objs[k + 1].clazz = "InstantMessage"
    /\ LET r == b_elements(archive.objs[k + 1].contents, 1,
                           [ok |-> TRUE, message |-> message,
                            participants |-> conversation.participants,
                            hasattachments |-> conversation.hasattachments])
       IN IF r.ok
          THEN /\ conversation' = [conversation EXCEPT
                                     !.participants = r.participants,
                                     !.hasattachments = r.hasattachments,
                                     !.messages = Append(conversation.messages, r.message)]
               /\ message' = r.message
               /\ origin' = Append(origin, k + 1)
               /\ k' = k + 1
               /\ UNCHANGED <<adapter, archive, pc>>
          ELSE Raise
    /\ UNCHANGED rvars

\* ichat_to_eml.py lines 131-197, an InstantMessage object
B_Message ==
    /\ adapter = "B" /\ pc = "loop" /\ k < Len(archive.objs)
    /\ archive.objs[k + 1].kind = "obj"
    /\ archive.objs[k + 1].clazz = "InstantMessage"
    /\ LET r == b_elements(archive.objs[k + 1].contents, 1,
                           [ok |-> TRUE, message |-> message,
                            participants |-> conversation.participants,
                            hasattachments |-> conversation.hasattachments])
       IN IF r.ok
          THEN /\ conversation' = [conversation EXCEPT
                                     !.participants = r.participants,
                                     !.hasattachments = r.hasattachments,
                                     !.messages = Append(conversation.messages, r.message)]
               /\ message' = EmptyDict
               /\ origin' = Append(origin, k + 1)
               /\ k' = k + 1
               /\ UNCHANGED <<adapter, archive, pc>>
          ELSE Raise
    /\ UNCHANGED rvars

\* ichat_to_eml.py lines 131-132, an object of another class; an object
\* without clazz raises AttributeError
B_Skip ==
    /\ adapter = "B" /\ pc = "loop" /\ k < Len(archive.objs)
    /\ ~(archive.objs[k + 1].kind = "obj" /\ archive.objs[k + 1].clazz = "InstantMessage")
    /\ IF archive.objs[k + 1].kind = "obj"
       THEN /\ k' = k + 1
            /\ UNCHANGED <<adapter, archive, pc, conversation, message, origin>>
       ELSE Raise
    /\ UNCHANGED rvars

\* ichat_to_eml.py lines 200-214
B_Stray ==
    /\ adapter = "B" /\ pc = "loop" /\ k = Len(archive.objs)
    /\ pc' = "finish"
    /\ conversation' =
         [conversation EXCEPT !.participants =
            b_stray(<<Elements(archive.objs)>> \o archive.rest, 1,
                    conversation.participants, conversation.protocol)]
    /\ UNCHANGED <<adapter, archive, k, message, origin>>
    /\ UNCHANGED rvars

\* ichat_to_eml.py lines 218-225; messages[-1]['dateobj'] raises IndexError
\* or KeyError when there is no last message or it has no timestamp
B_Finish ==
    /\ adapter = "B" /\ pc = "finish"
    /\ LET msgs == conversation.messages
       IN IF msgs = <<>> \/ "dateobj" \notin DOMAIN msgs[Len(msgs)]
          THEN Raise
          ELSE /\ pc' = "done"
               /\ conversation' =
                    Put([conversation EXCEPT
                           !.participants = pad_participants(conversation.participants)],
                        "dateobj", msgs[Len(msgs)].dateobj)
               /\ UNCHANGED <<adapter, archive, k, message, origin>>
    /\ UNCHANGED rvars

Next ==
    \/ A_Metadata \/ A_Message \/ A_Skip \/ A_Finish
    \/ B_Protocol \/ B_Message \/ B_Skip \/ B_Stray \/ B_Finish

Spec == Init /\ [][Next]_vars

----------------------------------------------------------------------------
(* Properties of decode_rtfd, checked under SpecRtfd *)

\* the buffer does not begin with the four bytes 'r' 't' 'f' 'd'
NoMagic == ~(Len(data) >= 4 /\ <<data[1], data[2], data[3], data[4]>> = <<114, 116, 102, 100>>)

\* the parts of the input have been parsed (passes 1 to 4 are over)
Parsed == rpc \in {"filename", "data", "done"}

\* the lowest index whose described part has a name in names, 0 if none
LeastNamed(ds, names) ==
    IF \E i \in 1..Len(ds) : ds[i].name \in names
    THEN CHOOSE i \in 1..Len(ds) :
            /\ ds[i].name \in names
            /\ \A j \in 1..(i - 1) : ds[j].name \notin names
    ELSE 0

\* C3: a buffer whose first four bytes are not the magic marker makes
\* decode_rtfd fail at the magic test: it ends in the error outcome, returns
\* no record, parses no header field or table, and reads no byte beyond
\* offset 3.
C3_NoMagicFailsFirst ==
    NoMagic =>
        /\ rpc \in {"magic", "error"}
        /\ consumed <= 4
        /\ DOMAIN outdict = {}
        /\ parts = <<>>
        /\ numberparts = 0
        /\ offset = 0

C3_Witness == NoMagic /\ rpc = "error" /\ Len(data) > 16 /\ consumed = 4

\* C4: a buffer that starts with the magic marker and has a count, length,
\* size or padding field that is negative or runs past the end of the buffer
\* (or of the part's content block) never makes decode_rtfd return a record.
C4_MalformedFails == (~NoMagic /\ src.malformed) => rpc # "done"

C6_TrailingBytesIgnored ==
    src.family = "trail" =>
        /\ rpc # "error"
        /\ Parsed => \A i \in 1..Len(parts) : parts[i].filebytes = src.parts[i].payload

\* C7: a part is parsed with the extended layout (start 16 + padding, size
\* from inner bytes 8-11) exactly when its declared-size field is
\* -2147483648, otherwise with the standard layout (start 8); a payload
\* yields the same file_bytes in either layout, for every padding length.
C7_LayoutBySentinel ==
    src.family = "layout" =>
        /\ rpc # "error"
        /\ Parsed =>
            /\ Len(parts) = Len(src.parts)
            /\ \A i \in 1..Len(parts) :
                LET sentinel == SubSeq(parts[i].contentbytes, 5, 8) = <<0, 0, 0, 128>>
                IN /\ sentinel <=> src.parts[i].ext
                   /\ parts[i].content_start = IF sentinel THEN 16 + src.parts[i].pad ELSE 8
                   /\ parts[i].content_size = Len(src.parts[i].payload)
                   /\ parts[i].filebytes = src.parts[i].payload
            /\ \A i, j \in 1..Len(parts) :
                src.parts[i].payload = src.parts[j].payload
                    => parts[i].filebytes = parts[j].filebytes

C7_Witness ==
    /\ rpc = "done" /\ src.family = "layout"
    /\ ~src.parts[1].ext /\ src.parts[2].ext /\ src.parts[2].pad >= 1
    /\ src.parts[1].payload = src.parts[2].payload /\ src.parts[1].payload # <<>>
    /\ parts[1].filebytes = parts[2].filebytes
    /\ parts[1].content_start = 8 /\ parts[2].content_start > 16


----------------------------------------------------------------------------
(* Properties of the adapters, checked under Spec *)

\* the objects of the message list the adapter iterates over
Objects == IF adapter = "A" THEN archive.root2 ELSE archive.objs

\* the adapter has returned a conversation
Returned == pc = "done"

\* an exception left the message loop while object k + 1 was handled
\* (Adapter A sets the protocol only once the metadata has been read)
RaisedInLoop == pc = "error" /\ k < Len(Objects) /\ "protocol" \in DOMAIN conversation

\* the attachment payloads an Adapter A message object hands to the decoder
PayloadsA(obj) ==
    IF obj.class = "InstantMessage"
       /\ "MessageText" \in DOMAIN obj
       /\ "NSAttributes" \in DOMAIN obj.MessageText
       /\ obj.MessageText.NSAttributes.kind = "dict"
       /\ "NSAttachment" \in DOMAIN obj.MessageText.NSAttributes.v
       /\ "NSFileWrapper" \in DOMAIN obj.MessageText.NSAttributes.v.NSAttachment
       /\ Truthy(obj.MessageText.NSAttributes.v.NSAttachment.NSFileWrapper)
    THEN {obj.MessageText.NSAttributes.v.NSAttachment.NSFileWrapper.NSFileWrapperData.NSdata}
    ELSE {}

\* the attachment payloads of an Adapter B message object
PayloadsB(obj) ==
    IF obj.kind = "obj" /\ obj.clazz = "InstantMessage"
    THEN UNION { IF i.kind = "obj" /\ i.clazz = "NSAttributedString"
                    /\ Len(i.contents) >= 3 /\ i.contents[1].has /\ i.contents[3].has
                 THEN { j.val.data : j \in { a \in { i.contents[3].attrs[n] :
                                                     n \in 1..Len(i.contents[3].attrs) } :
                                             a.key = "NSAttachment" /\ a.val.path = "ok" } }
                 ELSE {}
                 : i \in { obj.contents[n] : n \in 1..Len(obj.contents) } }
    ELSE {}

\* the payloads of object n of the message list
PayloadsOf(n) == IF adapter = "A" THEN PayloadsA(Objects[n]) ELSE PayloadsB(Objects[n])

\* d is a container that decodes and has no file name part
NamelessContainer(d) ==
    Bind(decode_rtfd(d), LAMBDA r : r.ok /\ "filename" \notin DOMAIN r.outdict)

\* an Adapter B message object whose NSAttributedString lacks a nested
\* element the traversal looks up: the text item or the attribute dictionary
MissingNested(obj) ==
    /\ obj.kind = "obj" /\ obj.clazz = "InstantMessage"
    /\ \E n \in 1..Len(obj.contents) :
         LET i == obj.contents[n]
         IN /\ i.kind = "obj" /\ i.clazz = "NSAttributedString"
            /\ \/ Len(i.contents) < 3
               \/ ~i.contents[1].has
               \/ ~i.contents[3].has

\* an Adapter A message object whose attachment marker holds a file wrapper
\* entry that is present but null
NullWrapper(obj) ==
    /\ obj.class = "InstantMessage"
    /\ "MessageText" \in DOMAIN obj
    /\ "NSAttributes" \in DOMAIN obj.MessageText
    /\ obj.MessageText.NSAttributes.kind = "dict"
    /\ "NSAttachment" \in DOMAIN obj.MessageText.NSAttributes.v
    /\ "NSFileWrapper" \in DOMAIN obj.MessageText.NSAttributes.v.NSAttachment
    /\ IsNone(obj.MessageText.NSAttributes.v.NSAttachment.NSFileWrapper)

\* C1: every conversation an adapter returns lists at least two
\* participants, also when no participant was discovered at all.
C1_AtLeastTwoParticipants ==
    Returned => Len(conversation.participants) >= 2

\* C2: Adapter B leaves out of the returned messages every message object
\* whose text element lacks an expected nested element: no returned message
\* originates from such an object (the other messages keep their order).
C2_FaultyMessageDropped ==
    (adapter = "B" /\ Returned) =>
        /\ \A j \in 1..Len(origin) : ~MissingNested(archive.objs[origin[j]])
        /\ \A i, j \in 1..Len(origin) : i < j => origin[i] < origin[j]

\* C8: a container that decodes but has no file name part does not make an
\* adapter fail, and the message it belongs to is returned with an
\* attachment that carries a placeholder name.
C8_MissingFilenameTolerated ==
    /\ RaisedInLoop => \A d \in PayloadsOf(k + 1) : ~NamelessContainer(d)
    /\ \A j \in 1..Len(origin) :
         (\E d \in PayloadsOf(origin[j]) : NamelessContainer(d)) =>
             /\ "attachment" \in DOMAIN conversation.messages[j]
             /\ conversation.messages[j].attachment.name
                    \in {UnnamedAttachment, EmptyAttachment}

\* C9: in Adapter A, a message whose file wrapper entry is present but null
\* is returned with an attachment of empty data, a placeholder name and no
\* Content-ID.
C9_NullWrapperPlaceholder ==
    adapter = "A" =>
        \A j \in 1..Len(origin) :
            NullWrapper(archive.root2[origin[j]]) =>
                /\ "attachment" \in DOMAIN conversation.messages[j]
                /\ conversation.messages[j].attachment.data = <<>>
                /\ conversation.messages[j].attachment.name
                       \in {UnnamedAttachment, EmptyAttachment}
                /\ "Content-ID" \notin DOMAIN conversation.messages[j].attachment

\* C10: every returned conversation has a boolean hasattachments, true
\* exactly when some returned message carries an attachment.
C10_HasAttachmentsIffAttached ==
    Returned =>
        /\ "hasattachments" \in DOMAIN conversation
        /\ conversation.hasattachments \in BOOLEAN
        /\ conversation.hasattachments
             <=> \E j \in 1..Len(conversation.messages) :
                     "attachment" \in DOMAIN conversation.messages[j]

\* C11: the participants of a returned conversation hold no identifier
\* twice, also when the one participant discovered is itself 'UNKNOWN'.
C11_UniqueParticipants ==
    Returned =>
        \A i, j \in 1..Len(conversation.participants) :
            i < j => conversation.participants[i] # conversation.participants[j]

\* Adapter B raised after the message loop and the stray scan, at line 218
RaisedAtFinish == adapter = "B" /\ pc = "error" /\ k = Len(archive.objs)

\* Adapter A raised while it read the metadata, lines 57-82
RaisedInMetadata == adapter = "A" /\ pc = "error" /\ "protocol" \notin DOMAIN conversation

\* the last message Adapter B collected has no timestamp
LastMessageUndated ==
    /\ conversation.messages # <<>>
    /\ "dateobj" \notin DOMAIN conversation.messages[Len(conversation.messages)]

\* the metadata of Adapter A lacks nothing but the display names
OnlyNamesMissing ==
    DOMAIN archive.metadata \cap {"StartTime", "EndTime", "Service", "Participants"}
        = {"StartTime", "EndTime", "Service"}

\* C12: a missing optional field is never an error: Adapter B does not fail
\* on the overall timestamp when the last message has no timestamp, and
\* Adapter A does not fail when the metadata has no display names.
C12_AbsentFieldsTolerated ==
    /\ ~(RaisedAtFinish /\ LastMessageUndated)
    /\ ~(RaisedInMetadata /\ OnlyNamesMissing)

\* the attachments of the messages collected so far
Attachments ==
    { conversation.messages[j].attachment :
        j \in { n \in 1..Len(conversation.messages) :
                  "attachment" \in DOMAIN conversation.messages[n] } }

\* C13: an attachment with empty data has no Content-ID, and an attachment
\* with data has the digest of exactly that data as its Content-ID.
C13_ContentIdOfData ==
    \A a \in Attachments :
        /\ a.data = <<>> => "Content-ID" \notin DOMAIN a
        /\ a.data # <<>> => /\ "Content-ID" \in DOMAIN a
                            /\ a["Content-ID"] = md5_hexdigest(a.data)

\* an Adapter B message object whose NSAttributedString has an attribute
\* dictionary with an NSAttachment entry
AttachmentMarker(obj) ==
    /\ obj.kind = "obj" /\ obj.clazz = "InstantMessage"
    /\ \E n \in 1..Len(obj.contents) :
         LET i == obj.contents[n]
         IN /\ i.kind = "obj" /\ i.clazz = "NSAttributedString"
            /\ Len(i.contents) >= 3 /\ i.contents[3].has
            /\ \E a \in 1..Len(i.contents[3].attrs) :
                  i.contents[3].attrs[a].key = "NSAttachment"

\* C14: Adapter B emits no message that lost its attachment: every output
\* message whose source object carries an attachment marker has the
\* attachment.
C14_NoSilentAttachmentLoss ==
    adapter = "B" =>
        \A j \in 1..Len(origin) :
            AttachmentMarker(archive.objs[origin[j]]) =>
                "attachment" \in DOMAIN conversation.messages[j]

\* the root elements Adapter B scans for stray participants, elements[2:]
StrayRoots == <<Elements(archive.objs)>> \o archive.rest

\* the identifiers the stray scan reads: the items of a Presentity outside
\* any message, up to the first item whose value cannot be read
StrayIds ==
    UNION { IF StrayRoots[a].has_elements
            THEN UNION { IF StrayRoots[a].elements[b].kind = "obj"
                            /\ StrayRoots[a].elements[b].clazz = "Presentity"
                         THEN { StrayRoots[a].elements[b].contents[c].v :
                                  c \in { n \in 1..Len(StrayRoots[a].elements[b].contents) :
                                            \A m \in 1..n :
                                              StrayRoots[a].elements[b].contents[m].has } }
                         ELSE {}
                         : b \in 1..Len(StrayRoots[a].elements) }
            ELSE {}
            : a \in 1..Len(StrayRoots) }

\* C15: after the stray scan, every identifier read from a Presentity
\* outside any message that differs from the protocol string is a
\* participant (a substring of the protocol string and the empty string
\* included), and the protocol string itself was not added.
C15_StrayAddedUnlessProtocol ==
    (adapter = "B" /\ pc \in {"finish", "done"}) =>
        /\ \A x \in StrayIds :
              x # conversation.protocol => InList(x, conversation.participants)
        /\ InList(conversation.protocol, conversation.participants) =>
              \E j \in 1..Len(conversation.messages) :
                  /\ "from" \in DOMAIN conversation.messages[j]
                  /\ conversation.messages[j].from = conversation.protocol

\* object n of the message list is tagged as an instant message
IsInstantMessage(n) ==
    IF adapter = "A" THEN Objects[n].class = "InstantMessage"
    ELSE Objects[n].kind = "obj" /\ Objects[n].clazz = "InstantMessage"

\* C16: in both adapters every step only appends to messages; each message
\* derives from an object tagged InstantMessage, the source positions of
\* the messages increase, and the step over an object of another class
\* changes no message.
C16_AppendOnlyInOrder ==
    [][ /\ Len(conversation'.messages) >= Len(conversation.messages)
        /\ SubSeq(conversation'.messages, 1, Len(conversation.messages))
              = conversation.messages
        /\ Len(origin') = Len(conversation'.messages)
        /\ \A j \in 1..Len(origin') : IsInstantMessage(origin'[j])
        /\ \A i, j \in 1..Len(origin') : i < j => origin'[i] < origin'[j]
        /\ (k < Len(Objects) /\ ~IsInstantMessage(k + 1)) =>
              /\ conversation'.messages = conversation.messages
              /\ message' = message
      ]_vars

\* the adapter returned after it skipped an object of another class and
\* then took a message from the InstantMessage behind it
C16_Witness ==
    /\ Returned
    /\ Len(Objects) = 2
    /\ ~IsInstantMessage(1)
    /\ origin = <<2>>

\* the NSAttributedString elements of an Adapter B message object
TextElements(obj) ==
    { n \in 1..Len(obj.contents) :
        obj.contents[n].kind = "obj" /\ obj.contents[n].clazz = "NSAttributedString" }

\* the message object has an NSAttributedString whose attribute dictionary
\* holds key
HasAttribute(obj, key) ==
    \E n \in TextElements(obj) :
        /\ Len(obj.contents[n].contents) >= 3 /\ obj.contents[n].contents[3].has
        /\ \E a \in 1..Len(obj.contents[n].contents[3].attrs) :
              obj.contents[n].contents[3].attrs[a].key = key

\* every field of the message m has its source in the message object obj
FieldsFrom(m, obj) ==
    /\ "from" \in DOMAIN m =>
          \E n \in 1..Len(obj.contents) :
              /\ obj.contents[n].kind = "obj" /\ obj.contents[n].clazz = "Presentity"
              /\ Len(obj.contents[n].contents) >= 2
              /\ obj.contents[n].contents[2].has
              /\ obj.contents[n].contents[2].v = m.from
    /\ "dateobj" \in DOMAIN m =>
          \E n \in 1..Len(obj.contents) :
              obj.contents[n].kind = "date" /\ obj.contents[n].t = m.dateobj
    /\ "text" \in DOMAIN m =>
          \E n \in TextElements(obj) :
              /\ Len(obj.contents[n].contents) >= 1
              /\ obj.contents[n].contents[1].has
              /\ obj.contents[n].contents[1].v = m.text
    /\ "textfont" \in DOMAIN m => HasAttribute(obj, "NSFont")
    /\ "textsize" \in DOMAIN m => HasAttribute(obj, "NSFont")
    /\ "textcolor" \in DOMAIN m => HasAttribute(obj, "NSColor")
    /\ "bgcolor" \in DOMAIN m => HasAttribute(obj, "NSBackgroundColor")
    /\ "attachment" \in DOMAIN m => HasAttribute(obj, "NSAttachment")
    /\ DOMAIN m \subseteq {"from", "dateobj", "text", "textfont", "textsize",
                           "textcolor", "bgcolor", "attachment"}

\* the message Adapter B builds of obj when the accumulator starts empty
BuiltAlone(obj) ==
    b_elements(obj.contents, 1,
               [ok |-> TRUE, message |-> EmptyDict, participants |-> <<>>,
                hasattachments |-> FALSE]).message

\* C17: in Adapter B the accumulator is empty between messages, and every
\* output message is what its own source object yields on an empty
\* accumulator: each of its fields has its source in that object.
C17_NoLeftOverFields ==
    adapter = "B" =>
        /\ message = EmptyDict
        /\ \A j \in 1..Len(origin) :
              /\ FieldsFrom(conversation.messages[j], archive.objs[origin[j]])
              /\ conversation.messages[j] = BuiltAlone(archive.objs[origin[j]])

\* Adapter B returned two messages: the first has text, sender and an
\* attachment, the second comes from an object whose text element lacks a
\* nested element and shows no attachment
C17_Witness ==
    /\ adapter = "B" /\ Returned
    /\ origin = <<1, 2>>
    /\ {"from", "text", "attachment"} \subseteq DOMAIN conversation.messages[1]
    /\ MissingNested(archive.objs[2])
    /\ "attachment" \notin DOMAIN conversation.messages[2]

\* x is what follows the last colon of s, all of s when it has none
FinalSegment(s, x) ==
    /\ Len(x) <= Len(s)
    /\ SubSeq(s, Len(s) - Len(x) + 1, Len(s)) = x
    /\ \A n \in 1..Len(x) : x[n] # 58
    /\ Len(x) < Len(s) => s[Len(s) - Len(x)] = 58

\* the ID fields of the senders of Adapter A's instant messages
SenderIds ==
    { archive.root2[n].Sender.ID :
        n \in { x \in 1..Len(archive.root2) :
                  /\ archive.root2[x].class = "InstantMessage"
                  /\ "Sender" \in DOMAIN archive.root2[x]
                  /\ ~IsNone(archive.root2[x].Sender)
                  /\ "ID" \in DOMAIN archive.root2[x].Sender } }

\* C18: in a returned conversation every non-empty sender of a message is
\* a participant; in Adapter A each participant is the sentinel or the final
\* colon-delimited segment of a sender ID, so a null sender and an AccountID
\* add nothing.
C18_SendersAreParticipants ==
    Returned =>
        /\ \A j \in 1..Len(conversation.messages) :
              ("from" \in DOMAIN conversation.messages[j]
                 /\ conversation.messages[j].from # <<>>) =>
                  InList(conversation.messages[j].from, conversation.participants)
        /\ adapter = "A" =>
              /\ \A n \in 1..Len(conversation.participants) :
                    \/ conversation.participants[n] = S_UNKNOWN
                    \/ \E id \in SenderIds : FinalSegment(id, conversation.participants[n])
              /\ \A j \in 1..Len(origin) :
                    LET obj == archive.root2[origin[j]]
                        m == conversation.messages[j]
                    IN IF "Sender" \notin DOMAIN obj THEN "from" \notin DOMAIN m
                       ELSE IF IsNone(obj.Sender) THEN m.from = <<>>
                       ELSE IF "ID" \in DOMAIN obj.Sender
                       THEN FinalSegment(obj.Sender.ID, m.from)
                       ELSE "from" \notin DOMAIN m

\* Adapter A returned two messages, one of a null sender or of a sender
\* known by AccountID only, one of a sender whose ID has several segments
C18_Witness ==
    /\ adapter = "A" /\ Returned
    /\ Len(conversation.messages) = 2
    /\ \E i, j \in 1..2 :
          /\ \/ "fromguid" \in DOMAIN conversation.messages[i]
             \/ ("from" \in DOMAIN conversation.messages[i]
                   /\ conversation.messages[i].from = <<>>)
          /\ "from" \in DOMAIN conversation.messages[j]
          /\ conversation.messages[j].from = Bo
          /\ conversation.participants = <<Bo, S_UNKNOWN>>

============================================================================
